---- MODULE Spec2Model ----
(***************************************************************************)
(* Model of the dorm duty bot (src/main.py): the persisted schedule        *)
(* snapshot, the rotation resolver get_duty_member, and the command and    *)
(* callback handlers that read and mutate the snapshot.                    *)
(*                                                                         *)
(* Dates are day numbers counted from 2025-12-01 (the default start        *)
(* date); a user id stands for itself and for its str() key.               *)
(***************************************************************************)
EXTENDS Integers, Sequences, FiniteSets, TLC

\* ------------------------------------------------------------------ bounds
MaxWeeks == 3
MaxId == 3
MaxUser == 2
MaxRanges == 1
MaxOffers == 1
NumCallbacks == 2

\* timedelta(days=7), the step of the replay loop
DAYS_PER_WEEK == 7

Ids == 1..MaxId
Users == 1..MaxUser
Labels == {"a", "b"}

\* ------------------------------------------------------------------ inputs
StartInputs == {0, DAYS_PER_WEEK}
RangeDays == {0, DAYS_PER_WEEK}
OffCadenceDay == 3
CadenceDays == {DAYS_PER_WEEK * k : k \in 0..MaxWeeks}
OverrideDays == CadenceDays \cup {OffCadenceDay}
DayInputs == OverrideDays \cup {OffCadenceDay + DAYS_PER_WEEK}
Intervals == {r \in [from : RangeDays, to : RangeDays] : r.from <= r.to}
RangeLists == {<<>>} \cup {<<r>> : r \in Intervals}
MemberLists == {[i \in 1..n |-> [id |-> i, label |-> "a"]] : n \in 0..MaxId}
BadDate == -1
StartArgs == StartInputs \cup {BadDate}
RangeArgs == RangeDays \cup {BadDate}
SkipArgs == {0, DAYS_PER_WEEK, OffCadenceDay, BadDate}
NoArgs == ""
\* date.today(): the default start date (a Monday), the Sunday after it and
\* the Wednesday after that
TodayInputs == {0, 6, 9}
\* /calendar arguments: months counted from 2025-12, and one that date() rejects
MonthInputs == {-1, 0, 1}
BadMonth == 13
NoReply == 0
Callbacks == 1..NumCallbacks
AtMostOne(K, V) ==
    UNION {[D -> V] : D \in {S \in SUBSET K : Cardinality(S) <= 1}}

\* None, as returned by get_member_by_id / get_duty_member
None == [id |-> 0, label |-> "-"]

\* ---------------------------------------------------------------- state
VARIABLES
    fileExists,       \* DATA_FILE.exists()
    start_date,       \* state["start_date"]
    members,          \* state["members"]: sequence of [id, label]
    penalties,        \* state["penalties"]: str(id) -> count
    overrides,        \* state["overrides"]: iso date -> id
    global_holidays,  \* state["global_holidays"]: sequence of [from, to]
    away_ranges,      \* state["away_ranges"]: str(id) -> sequence of [from, to]
    rpc,              \* get_duty_member: position ("idle", "loop", "done")
    day,              \* get_duty_member: argument day
    current,          \* get_duty_member: local current
    pos,              \* get_duty_member: local pos
    assigned_member,  \* get_duty_member: local assigned_member
    result,           \* get_duty_member: returned value
    week,             \* the date the last loop iteration processed (-1: none)
    prevPos,          \* pos at the start of the last loop iteration
    firstCall,        \* the first value a caller got back: [day, result]
    schedule,         \* the lines of the last schedule message: [day, duty]
    offers,           \* callback_data of the published "volunteer" keyboards
    cb,               \* volunteer_callback coroutines: position and locals
    reply,            \* the last message the bot sent
    confirmations     \* the swap confirmations the bot sent, in order

snapshot == <<start_date, members, penalties, overrides, global_holidays, away_ranges>>
resolver == <<rpc, day, current, pos, assigned_member, result, week, prevPos, firstCall>>
chat == <<schedule, offers, cb, reply, confirmations>>
vars == <<fileExists, snapshot, resolver, chat>>

\* the dict load_state() returns
State ==
    [start_date |-> start_date, members |-> members, penalties |-> penalties,
     overrides |-> overrides, global_holidays |-> global_holidays,
     away_ranges |-> away_ranges]

\* ------------------------------------------------------- member helpers
RECURSIVE MemberByIdFrom(_, _, _)
MemberByIdFrom(ms, i, user_id) ==
    IF i > Len(ms) THEN None
    ELSE IF ms[i].id = user_id THEN ms[i]
    ELSE MemberByIdFrom(ms, i + 1, user_id)

GetMemberById(user_id, st) == MemberByIdFrom(st.members, 1, user_id)

RECURSIVE MemberByLabelFrom(_, _, _)
MemberByLabelFrom(ms, i, label) ==
    IF i > Len(ms) THEN None
    ELSE IF ms[i].label = label THEN ms[i]
    ELSE MemberByLabelFrom(ms, i + 1, label)

GetMemberByLabel(label, st) == MemberByLabelFrom(st.members, 1, label)

\* ------------------------------------------------------ dates / intervals
DayInRange(d, r) == r.from <= d /\ d <= r.to

IsGlobalHoliday(d, st) ==
    \E i \in 1..Len(st.global_holidays) : DayInRange(d, st.global_holidays[i])

IsMemberAwayOn(user_id, d, st) ==
    LET ranges == IF user_id \in DOMAIN st.away_ranges
                  THEN st.away_ranges[user_id] ELSE <<>>
    IN  \E i \in 1..Len(ranges) : DayInRange(d, ranges[i])

\* ------------------------------------------------------ rotation resolver
\* (variant: an assignment leaves pos where it was)
RECURSIVE ScanCandidatesStuck(_, _, _, _, _)
ScanCandidatesStuck(idx, tried, p, cur, st) ==
    IF tried < Len(st.members)
    THEN LET candidate == st.members[idx + 1] IN
         IF ~IsMemberAwayOn(candidate.id, cur, st)
         THEN [assigned |-> candidate, pos |-> p]
         ELSE ScanCandidatesStuck((idx + 1) % Len(st.members), tried + 1, p, cur, st)
    ELSE [assigned |-> None, pos |-> p]

\* (variant: pos moves one past where the scan began, not past the assignee)
RECURSIVE ScanCandidatesPastStart(_, _, _, _, _)
ScanCandidatesPastStart(idx, tried, p, cur, st) ==
    IF tried < Len(st.members)
    THEN LET candidate == st.members[idx + 1] IN
         IF ~IsMemberAwayOn(candidate.id, cur, st)
         THEN [assigned |-> candidate, pos |-> (p + 1) % Len(st.members)]
         ELSE ScanCandidatesPastStart((idx + 1) % Len(st.members), tried + 1, p, cur, st)
    ELSE [assigned |-> None, pos |-> p]

\* (variant: an exhausted scan still consumes a turn)
RECURSIVE ScanCandidatesConsume(_, _, _, _, _)
ScanCandidatesConsume(idx, tried, p, cur, st) ==
    IF tried < Len(st.members)
    THEN LET candidate == st.members[idx + 1] IN
         IF ~IsMemberAwayOn(candidate.id, cur, st)
         THEN [assigned |-> candidate, pos |-> (idx + 1) % Len(st.members)]
         ELSE ScanCandidatesConsume((idx + 1) % Len(st.members), tried + 1, p, cur, st)
    ELSE [assigned |-> None, pos |-> (p + 1) % Len(st.members)]

\* the inner while loop: first member from idx on who is not away
RECURSIVE ScanCandidates(_, _, _, _, _)
ScanCandidates(idx, tried, p, cur, st) ==
    IF tried < Len(st.members)
    THEN LET candidate == st.members[idx + 1] IN
         IF ~IsMemberAwayOn(candidate.id, cur, st)
         THEN [assigned |-> candidate, pos |-> (idx + 1) % Len(st.members)]
         ELSE ScanCandidates((idx + 1) % Len(st.members), tried + 1, p, cur, st)
    ELSE [assigned |-> None, pos |-> p]

\* position of the member with this id in the list, 0-based (-1: none)
IndexOfId(user_id, st) ==
    IF \E i \in 1..Len(st.members) : st.members[i].id = user_id
    THEN (CHOOSE i \in 1..Len(st.members) : st.members[i].id = user_id) - 1
    ELSE -1

\* (variant: the override is looked up before the holiday test)
WeekStepOverrideFirst(p, cur, st) ==
    IF cur \in DOMAIN st.overrides
    THEN [assigned |-> GetMemberById(st.overrides[cur], st),
          pos |-> (p + 1) % Len(st.members)]
    ELSE IF IsGlobalHoliday(cur, st)
    THEN [assigned |-> None, pos |-> p]
    ELSE ScanCandidates(p, 0, p, cur, st)

\* (variant: after an override pos resumes one past the substitute)
WeekStepOverrideJump(p, cur, st) ==
    IF IsGlobalHoliday(cur, st)
    THEN [assigned |-> None, pos |-> p]
    ELSE IF cur \in DOMAIN st.overrides
    THEN [assigned |-> GetMemberById(st.overrides[cur], st),
          pos |-> IF IndexOfId(st.overrides[cur], st) >= 0
                  THEN (IndexOfId(st.overrides[cur], st) + 1) % Len(st.members)
                  ELSE p]
    ELSE ScanCandidates(p, 0, p, cur, st)

\* (variant: a holiday week consumes a turn)
WeekStepHolidayAdvance(p, cur, st) ==
    IF IsGlobalHoliday(cur, st)
    THEN [assigned |-> None, pos |-> (p + 1) % Len(st.members)]
    ELSE IF cur \in DOMAIN st.overrides
    THEN [assigned |-> GetMemberById(st.overrides[cur], st),
          pos |-> (p + 1) % Len(st.members)]
    ELSE ScanCandidates(p, 0, p, cur, st)

\* (variant: an override naming a member who is away falls back to the scan)
WeekStepOverridePresent(p, cur, st) ==
    IF IsGlobalHoliday(cur, st)
    THEN [assigned |-> None, pos |-> p]
    ELSE IF cur \in DOMAIN st.overrides /\ ~IsMemberAwayOn(st.overrides[cur], cur, st)
    THEN [assigned |-> GetMemberById(st.overrides[cur], st),
          pos |-> (p + 1) % Len(st.members)]
    ELSE ScanCandidates(p, 0, p, cur, st)

\* (variant: an overridden week does not consume a turn)
WeekStepOverrideStay(p, cur, st) ==
    IF IsGlobalHoliday(cur, st)
    THEN [assigned |-> None, pos |-> p]
    ELSE IF cur \in DOMAIN st.overrides
    THEN [assigned |-> GetMemberById(st.overrides[cur], st), pos |-> p]
    ELSE ScanCandidates(p, 0, p, cur, st)

\* one iteration of the outer while loop, up to the return test
WeekStep(p, cur, st) ==
    IF IsGlobalHoliday(cur, st)
    THEN [assigned |-> None, pos |-> p]
    ELSE IF cur \in DOMAIN st.overrides
    THEN [assigned |-> GetMemberById(st.overrides[cur], st),
          pos |-> (p + 1) % Len(st.members)]
    ELSE ScanCandidates(p, 0, p, cur, st)

RECURSIVE ReplayLoop(_, _, _, _)
ReplayLoop(p, cur, d, st) ==
    IF cur <= d
    THEN LET w == WeekStep(p, cur, st) IN
         IF cur = d THEN w.assigned
         ELSE ReplayLoop(w.pos, cur + DAYS_PER_WEEK, d, st)
    ELSE None

GetDutyMember(d, st) ==
    IF st.members = <<>> THEN None
    ELSE IF d < st.start_date THEN None
    ELSE ReplayLoop(0, st.start_date, d, st)

\* ------------------------------------------- get_duty_member, step by step
\* no call has returned yet
NoCall == [day |-> -1, result |-> None]

ResolverIdle ==
    /\ rpc = "idle" /\ day = 0 /\ current = 0 /\ pos = 0
    /\ assigned_member = None /\ result = None /\ week = -1 /\ prevPos = 0
    /\ firstCall = NoCall

\* (variant: pos is a counter kept from one call to the next)
ResolveCallCarry ==
    /\ rpc \in {"idle", "done"}
    /\ \E d \in DayInputs :
        /\ day' = d
        /\ IF members = <<>> \/ d < start_date
           THEN /\ rpc' = "done"
                /\ result' = None
                /\ UNCHANGED <<current, pos>>
           ELSE /\ rpc' = "loop"
                /\ pos' = pos
                /\ current' = start_date
                /\ UNCHANGED result
    /\ UNCHANGED <<assigned_member, week, prevPos, firstCall, fileExists, snapshot, chat>>

\* (variant: before the start date the head of the list is on duty)
ResolveCallHeadBeforeStart ==
    /\ rpc = "idle"
    /\ \E d \in DayInputs :
        /\ day' = d
        /\ IF members = <<>> \/ d < start_date
           THEN /\ rpc' = "done"
                /\ result' = IF members = <<>> THEN None ELSE members[1]
                /\ UNCHANGED <<current, pos>>
           ELSE /\ rpc' = "loop"
                /\ pos' = 0
                /\ current' = start_date
                /\ UNCHANGED result
    /\ UNCHANGED <<assigned_member, week, prevPos, firstCall, fileExists, snapshot, chat>>

ResolveCall ==
    /\ rpc = "idle"
    /\ \E d \in DayInputs :
        /\ day' = d
        /\ IF members = <<>> \/ d < start_date
           THEN /\ rpc' = "done"
                /\ result' = None
                /\ UNCHANGED <<current, pos>>
           ELSE /\ rpc' = "loop"
                /\ pos' = 0
                /\ current' = start_date
                /\ UNCHANGED result
    /\ UNCHANGED <<assigned_member, week, prevPos, firstCall, fileExists, snapshot, chat>>

ResolveWeek ==
    /\ rpc = "loop"
    /\ current <= day
    /\ LET w == WeekStep(pos, current, State) IN
        /\ assigned_member' = w.assigned
        /\ pos' = w.pos
        /\ prevPos' = pos
        /\ week' = current
        /\ IF current = day
           THEN /\ rpc' = "done"
                /\ result' = w.assigned
                /\ UNCHANGED current
           ELSE /\ current' = current + DAYS_PER_WEEK
                /\ UNCHANGED <<rpc, result>>
    /\ UNCHANGED <<day, firstCall, fileExists, snapshot, chat>>

\* (variant: a loop that steps past the day returns the last week's assignee)
ResolveExitLastWeek ==
    /\ rpc = "loop"
    /\ current > day
    /\ rpc' = "done"
    /\ result' = assigned_member
    /\ UNCHANGED <<day, current, pos, assigned_member, week, prevPos, firstCall,
                   fileExists, snapshot, chat>>

ResolveExit ==
    /\ rpc = "loop"
    /\ current > day
    /\ rpc' = "done"
    /\ result' = None
    /\ UNCHANGED <<day, current, pos, assigned_member, week, prevPos, firstCall,
                   fileExists, snapshot, chat>>

ResolveReturn ==
    /\ rpc = "done"
    /\ rpc' = "idle" /\ day' = 0 /\ current' = 0 /\ pos' = 0
    /\ assigned_member' = None /\ result' = None /\ week' = -1 /\ prevPos' = 0
    /\ UNCHANGED <<firstCall, fileExists, snapshot, chat>>

\* the return to a caller that keeps the first value it was given and calls
\* again (get_duty_for_day called in a loop by week_handler, calendar_handler)
ResolveKeep ==
    /\ rpc = "done"
    /\ firstCall' = IF firstCall = NoCall
                    THEN [day |-> day, result |-> result] ELSE firstCall
    /\ rpc' = "idle" /\ day' = 0 /\ current' = 0 /\ pos' = 0
    /\ assigned_member' = None /\ result' = None /\ week' = -1 /\ prevPos' = 0
    /\ UNCHANGED <<fileExists, snapshot, chat>>


\* ------------------------------------------------------- state store
\* DEFAULT_STATE, day 0 being 2025-12-01
DEFAULT_STATE ==
    [start_date |-> 0, members |-> <<>>, penalties |-> <<>>, overrides |-> <<>>,
     global_holidays |-> <<>>, away_ranges |-> <<>>]

\* load_state: reads the file, or writes DEFAULT_STATE when there is none;
\* the snapshot variables hold DEFAULT_STATE until the first save
LoadState == fileExists' = TRUE

SaveState(st) ==
    /\ fileExists' = TRUE
    /\ start_date' = st.start_date
    /\ members' = st.members
    /\ penalties' = st.penalties
    /\ overrides' = st.overrides
    /\ global_holidays' = st.global_holidays
    /\ away_ranges' = st.away_ranges

Put(f, k, v) == [x \in DOMAIN f \cup {k} |-> IF x = k THEN v ELSE f[x]]
Drop(f, k) == [x \in DOMAIN f \ {k} |-> f[x]]

\* (variant: the entry is set to 0 whether or not it exists)
EnsurePenaltyEntryReset(user_id, st) ==
    [st EXCEPT !.penalties = Put(st.penalties, user_id, 0)]

EnsurePenaltyEntry(user_id, st) ==
    IF user_id \in DOMAIN st.penalties THEN st
    ELSE [st EXCEPT !.penalties = Put(st.penalties, user_id, 0)]

\* parse_date: a well-formed argument (in either format) denotes its day;
\* anything else raises ValueError
ParseOk(s) == s # BadDate
ParseDate(s) == s

RECURSIVE SumLen(_, _)
SumLen(f, K) ==
    IF K = {} THEN 0
    ELSE LET k == CHOOSE x \in K : TRUE IN Len(f[k]) + SumLen(f, K \ {k})

\* number of stored intervals
StoredRanges == Len(global_holidays) + SumLen(away_ranges, DOMAIN away_ranges)

\* ------------------------------------------------------- command handlers
\* Every handler runs from its first statement to its closing reply without
\* an await in between, so each is one step.
Reply(text) == reply' = text

\* the body shared by join_handler and addmember_handler once the target is known
Register(user_id, label, st) ==
    LET existing == GetMemberById(user_id, st) IN
    IF existing # None
    THEN EnsurePenaltyEntry(user_id,
            [st EXCEPT !.members =
                [i \in 1..Len(st.members) |->
                    IF st.members[i].id = user_id
                    THEN [st.members[i] EXCEPT !.label = label]
                    ELSE st.members[i]]])
    ELSE EnsurePenaltyEntry(user_id,
            [st EXCEPT !.members = Append(st.members, [id |-> user_id, label |-> label])])

Join(user_id, args) ==
    /\ IF args = NoArgs
       THEN /\ Reply("usage")
            /\ UNCHANGED <<fileExists, snapshot>>
       ELSE /\ SaveState(Register(user_id, args, State))
            /\ Reply(IF GetMemberById(user_id, State) # None THEN "renamed" ELSE "added")
    /\ UNCHANGED <<resolver, schedule, offers, cb, confirmations>>

JoinHandler == \E user_id \in Users, args \in Labels \cup {NoArgs} : Join(user_id, args)

\* is_admin is true of everyone: ADMIN_IDS is empty
AddMember(user_id, reply_to, args) ==
    LET target_id == IF reply_to # NoReply THEN reply_to ELSE user_id IN
    /\ IF args = NoArgs
       THEN /\ Reply("usage")
            /\ UNCHANGED <<fileExists, snapshot>>
       ELSE /\ SaveState(Register(target_id, args, State))
            /\ Reply(IF GetMemberById(target_id, State) # None THEN "renamed" ELSE "added")
    /\ UNCHANGED <<resolver, schedule, offers, cb, confirmations>>

AddMemberHandler ==
    \E user_id \in Users, reply_to \in Users \cup {NoReply}, args \in Labels \cup {NoArgs} :
        AddMember(user_id, reply_to, args)

\* list.remove: drops the first element equal to m
RemoveFirst(ms, m) ==
    LET i == CHOOSE k \in 1..Len(ms) : ms[k] = m /\ \A j \in 1..(k - 1) : ms[j] # m
    IN  SubSeq(ms, 1, i - 1) \o SubSeq(ms, i + 1, Len(ms))

\* (variant: the overrides naming the removed member are purged with it)
RemoveMemberPurge(args) ==
    /\ IF args = NoArgs
       THEN /\ Reply("usage")
            /\ UNCHANGED <<fileExists, snapshot>>
       ELSE LET member == GetMemberByLabel(args, State) IN
            IF member = None
            THEN /\ LoadState
                 /\ Reply("no such member")
                 /\ UNCHANGED snapshot
            ELSE /\ SaveState([State EXCEPT
                        !.members = RemoveFirst(State.members, member),
                        !.penalties = Drop(State.penalties, member.id),
                        !.overrides = [d \in {x \in DOMAIN State.overrides :
                                                State.overrides[x] # member.id}
                                       |-> State.overrides[d]]])
                 /\ Reply("removed")
    /\ UNCHANGED <<resolver, schedule, offers, cb, confirmations>>

RemoveMember(args) ==
    /\ IF args = NoArgs
       THEN /\ Reply("usage")
            /\ UNCHANGED <<fileExists, snapshot>>
       ELSE LET member == GetMemberByLabel(args, State) IN
            IF member = None
            THEN /\ LoadState
                 /\ Reply("no such member")
                 /\ UNCHANGED snapshot
            ELSE /\ SaveState([State EXCEPT
                        !.members = RemoveFirst(State.members, member),
                        !.penalties = Drop(State.penalties, member.id)])
                 /\ Reply("removed")
    /\ UNCHANGED <<resolver, schedule, offers, cb, confirmations>>

RemoveMemberHandler == \E args \in Labels \cup {NoArgs} : RemoveMember(args)

SetStart(arg) ==
    /\ IF ~ParseOk(arg)
       THEN /\ Reply("bad date")
            /\ UNCHANGED <<fileExists, snapshot>>
       ELSE /\ SaveState([State EXCEPT !.start_date = ParseDate(arg)])
            /\ Reply("start changed")
    /\ UNCHANGED <<resolver, schedule, offers, cb, confirmations>>

SetStartHandler == \E arg \in StartArgs : SetStart(arg)

\* (variant: the end date is not compared with the start date)
HolidayRangeUnordered(from_str, to_str) ==
    /\ IF ~ParseOk(from_str) \/ ~ParseOk(to_str)
       THEN /\ Reply("bad date")
            /\ UNCHANGED <<fileExists, snapshot>>
       ELSE /\ StoredRanges < MaxRanges
            /\ SaveState([State EXCEPT !.global_holidays =
                    Append(@, [from |-> ParseDate(from_str), to |-> ParseDate(to_str)])])
            /\ Reply("holiday added")
    /\ UNCHANGED <<resolver, schedule, offers, cb, confirmations>>

HolidayRange(from_str, to_str) ==
    /\ IF ~ParseOk(from_str) \/ ~ParseOk(to_str)
       THEN /\ Reply("bad date")
            /\ UNCHANGED <<fileExists, snapshot>>
       ELSE IF ParseDate(to_str) < ParseDate(from_str)
       THEN /\ Reply("end before start")
            /\ UNCHANGED <<fileExists, snapshot>>
       ELSE /\ StoredRanges < MaxRanges
            /\ SaveState([State EXCEPT !.global_holidays =
                    Append(@, [from |-> ParseDate(from_str), to |-> ParseDate(to_str)])])
            /\ Reply("holiday added")
    /\ UNCHANGED <<resolver, schedule, offers, cb, confirmations>>

HolidayRangeHandler ==
    \E from_str \in RangeArgs, to_str \in RangeArgs : HolidayRange(from_str, to_str)

Away(user_id, from_str, to_str) ==
    /\ IF ~ParseOk(from_str) \/ ~ParseOk(to_str)
       THEN /\ Reply("bad date")
            /\ UNCHANGED <<fileExists, snapshot>>
       ELSE IF ParseDate(to_str) < ParseDate(from_str)
       THEN /\ Reply("end before start")
            /\ UNCHANGED <<fileExists, snapshot>>
       ELSE IF GetMemberById(user_id, State) = None
       THEN /\ LoadState
            /\ Reply("join first")
            /\ UNCHANGED snapshot
       ELSE LET ranges == IF user_id \in DOMAIN away_ranges
                          THEN away_ranges[user_id] ELSE <<>> IN
            /\ StoredRanges < MaxRanges
            /\ SaveState([State EXCEPT !.away_ranges =
                    Put(@, user_id,
                        Append(ranges, [from |-> ParseDate(from_str),
                                        to |-> ParseDate(to_str)]))])
            /\ Reply("away added")
    /\ UNCHANGED <<resolver, schedule, offers, cb, confirmations>>

AwayHandler ==
    \E user_id \in Users, from_str \in RangeArgs, to_str \in RangeArgs :
        Away(user_id, from_str, to_str)

\* ------------------------------------------------------- schedule views
\* date.weekday() of a day number: day 0 (2025-12-01) is a Monday, 6 a Sunday
SUNDAY == 6
Weekday(d) == d % DAYS_PER_WEEK
NextSunday(today) == today + ((SUNDAY - Weekday(today)) % DAYS_PER_WEEK)

GetDutyForDay(d, st) ==
    LET m == GetDutyMember(d, st) IN IF m = None THEN "nobody" ELSE m.label

Line(d, st) == [day |-> d, duty |-> GetDutyForDay(d, st)]

NextCmd(today) ==
    /\ LoadState
    /\ schedule' = <<Line(NextSunday(today), State)>>
    /\ Reply("next")
    /\ UNCHANGED <<snapshot, resolver, offers, cb, confirmations>>

NextHandler == \E today \in TodayInputs : NextCmd(today)

\* range(4) in week_handler
WEEKS_AHEAD == 4

WeekCmd(today) ==
    /\ LoadState
    /\ schedule' = [i \in 1..WEEKS_AHEAD |->
                       Line(NextSunday(today) + DAYS_PER_WEEK * (i - 1), State)]
    /\ Reply("week")
    /\ UNCHANGED <<snapshot, resolver, offers, cb, confirmations>>

WeekHandler == \E today \in TodayInputs : WeekCmd(today)

\* date(year, month, 1) and the last day of that month, for 2025-11 .. 2026-01
FirstDay(ym) == CASE ym = -1 -> -30 [] ym = 0 -> 0 [] ym = 1 -> 31
LastDay(ym) == CASE ym = -1 -> -1 [] ym = 0 -> 30 [] ym = 1 -> 61

\* the first date curr of the month loop
FirstDutyDay(first_day, start) ==
    IF first_day <= start THEN start
    ELSE start + DAYS_PER_WEEK * (((first_day - start) + 6) \div DAYS_PER_WEEK)

RECURSIVE MonthLines(_, _, _)
MonthLines(curr, last_day, st) ==
    IF curr <= last_day
    THEN <<Line(curr, st)>> \o MonthLines(curr + DAYS_PER_WEEK, last_day, st)
    ELSE <<>>

Calendar(has_args, ym) ==
    /\ LoadState
    /\ IF ~has_args
       THEN Reply("usage") /\ UNCHANGED schedule
       ELSE IF ym = BadMonth
       THEN Reply("bad format") /\ UNCHANGED schedule
       ELSE /\ schedule' = MonthLines(FirstDutyDay(FirstDay(ym), start_date),
                                      LastDay(ym), State)
            /\ Reply("calendar")
    /\ UNCHANGED <<snapshot, resolver, offers, cb, confirmations>>

CalendarHandler ==
    \E has_args \in BOOLEAN, ym \in MonthInputs \cup {BadMonth} : Calendar(has_args, ym)

\* ------------------------------------------------------- swap coordinator
\* the callback_data of the keyboard skip_handler publishes
Offer(d, requester) == [date |-> d, absent |-> requester]

\* (variant: any assigned date can be offered, whoever asks)
SkipAnyRequester(requester, arg) ==
    /\ IF ~ParseOk(arg)
       THEN /\ Reply("bad date")
            /\ UNCHANGED <<fileExists, offers>>
       ELSE LET d == ParseDate(arg)
                duty_member == GetDutyMember(d, State) IN
            /\ LoadState
            /\ IF duty_member = None
               THEN Reply("no duty") /\ UNCHANGED offers
               ELSE /\ Offer(d, requester) \in offers \/ Cardinality(offers) < MaxOffers
                    /\ offers' = offers \cup {Offer(d, requester)}
                    /\ Reply("offer")
    /\ UNCHANGED <<snapshot, resolver, schedule, cb, confirmations>>

Skip(requester, arg) ==
    /\ IF ~ParseOk(arg)
       THEN /\ Reply("bad date")
            /\ UNCHANGED <<fileExists, offers>>
       ELSE LET d == ParseDate(arg)
                duty_member == GetDutyMember(d, State) IN
            /\ LoadState
            /\ IF duty_member = None
               THEN Reply("no duty") /\ UNCHANGED offers
               ELSE IF duty_member.id # requester
               THEN Reply("not yours") /\ UNCHANGED offers
               ELSE /\ Offer(d, requester) \in offers \/ Cardinality(offers) < MaxOffers
                    /\ offers' = offers \cup {Offer(d, requester)}
                    /\ Reply("offer")
    /\ UNCHANGED <<snapshot, resolver, schedule, cb, confirmations>>

SkipHandler == \E requester \in Users, arg \in SkipArgs : Skip(requester, arg)

\* (variant: a recorded override is overwritten)
VolunteerBodyOverwrite(iso, absent_id, volunteer_id, st) ==
    IF GetMemberById(volunteer_id, st) = None
    THEN [text |-> "not a member", save |-> FALSE, state |-> st]
    ELSE LET s1 == [st EXCEPT !.overrides = Put(@, iso, volunteer_id)]
             s2 == EnsurePenaltyEntry(absent_id, s1)
             s3 == [s2 EXCEPT !.penalties[absent_id] = @ + 1]
         IN  [text |-> "accepted", save |-> TRUE, state |-> s3]

\* (variant: only a repeat by the recorded volunteer counts as taken)
VolunteerBodySameVolunteer(iso, absent_id, volunteer_id, st) ==
    IF GetMemberById(volunteer_id, st) = None
    THEN [text |-> "not a member", save |-> FALSE, state |-> st]
    ELSE IF iso \in DOMAIN st.overrides /\ st.overrides[iso] = volunteer_id
    THEN [text |-> "already taken", save |-> FALSE, state |-> st]
    ELSE LET s1 == [st EXCEPT !.overrides = Put(@, iso, volunteer_id)]
             s2 == EnsurePenaltyEntry(absent_id, s1)
             s3 == [s2 EXCEPT !.penalties[absent_id] = @ + 1]
         IN  [text |-> "accepted", save |-> TRUE, state |-> s3]

\* (variant: the volunteer is not looked up in the member list)
VolunteerBodyAnyUser(iso, absent_id, volunteer_id, st) ==
    IF iso \in DOMAIN st.overrides
    THEN [text |-> "already taken", save |-> FALSE, state |-> st]
    ELSE LET s1 == [st EXCEPT !.overrides = Put(@, iso, volunteer_id)]
             s2 == EnsurePenaltyEntry(absent_id, s1)
             s3 == [s2 EXCEPT !.penalties[absent_id] = @ + 1]
         IN  [text |-> "accepted", save |-> TRUE, state |-> s3]

\* volunteer_callback from load_state to save_state
VolunteerBody(iso, absent_id, volunteer_id, st) ==
    IF GetMemberById(volunteer_id, st) = None
    THEN [text |-> "not a member", save |-> FALSE, state |-> st]
    ELSE IF iso \in DOMAIN st.overrides
    THEN [text |-> "already taken", save |-> FALSE, state |-> st]
    ELSE LET s1 == [st EXCEPT !.overrides = Put(@, iso, volunteer_id)]
             s2 == EnsurePenaltyEntry(absent_id, s1)
             s3 == [s2 EXCEPT !.penalties[absent_id] = @ + 1]
         IN  [text |-> "accepted", save |-> TRUE, state |-> s3]

\* volunteer_callback after query.answer(): the body and the closing
\* edit_message_text.  The edit drops the keyboard of the pressed message
\* only: the same callback_data stays pressable from another published
\* message or arrives with an update already sent, so the offer is kept.
VolunteerRest(o, volunteer_id) ==
    LET r == VolunteerBody(o.date, o.absent, volunteer_id, State) IN
    /\ IF r.save THEN SaveState(r.state) ELSE LoadState /\ UNCHANGED snapshot
    /\ Reply(r.text)
    /\ confirmations' =
         IF r.save
         THEN Append(confirmations,
                     [date |-> o.date, absent |-> o.absent, volunteer |-> volunteer_id])
         ELSE confirmations
    /\ offers' = offers
    /\ UNCHANGED <<resolver, schedule>>

\* the updates are dispatched one at a time (concurrent_updates is off): the
\* whole callback is one step
Volunteer(o, volunteer_id) ==
    /\ VolunteerRest(o, volunteer_id)
    /\ UNCHANGED cb

VolunteerHandler == \E o \in offers, volunteer_id \in Users : Volunteer(o, volunteer_id)

\* ------------------------------------------------------- bot specification
IdleCallback == [pc |-> "idle", date |-> 0, absent |-> 0, volunteer |-> 0]

ChatIdle ==
    /\ schedule = <<>>
    /\ offers = {}
    /\ cb = [p \in Callbacks |-> IdleCallback]
    /\ reply = ""
    /\ confirmations = <<>>

Init ==
    /\ fileExists = FALSE
    /\ start_date = DEFAULT_STATE.start_date
    /\ members = DEFAULT_STATE.members
    /\ penalties = DEFAULT_STATE.penalties
    /\ overrides = DEFAULT_STATE.overrides
    /\ global_holidays = DEFAULT_STATE.global_holidays
    /\ away_ranges = DEFAULT_STATE.away_ranges
    /\ ResolverIdle
    /\ ChatIdle

Next ==
    \/ JoinHandler
    \/ AddMemberHandler
    \/ RemoveMemberHandler
    \/ SetStartHandler
    \/ HolidayRangeHandler
    \/ AwayHandler
    \/ SkipHandler
    \/ VolunteerHandler

Spec == Init /\ [][Next]_vars

\* ------------------------------------------- the schedule being looked at
ViewNext ==
    \/ JoinHandler
    \/ SetStartHandler
    \/ HolidayRangeHandler
    \/ NextHandler
    \/ WeekHandler
    \/ CalendarHandler

SpecView == Init /\ [][ViewNext]_vars

\* ------------------------------------- callbacks dispatched concurrently
\* With concurrent dispatch a coroutine can be suspended at an await and
\* nowhere else: volunteer_callback at query.answer(), before load_state.
VolunteerPress(p) ==
    /\ cb[p].pc = "idle"
    /\ \E o \in offers, volunteer_id \in Users :
        cb' = [cb EXCEPT ![p] = [pc |-> "answer", date |-> o.date,
                                 absent |-> o.absent, volunteer |-> volunteer_id]]
    /\ UNCHANGED <<fileExists, snapshot, resolver, schedule, offers, reply, confirmations>>

VolunteerResume(p) ==
    /\ cb[p].pc = "answer"
    /\ VolunteerRest(Offer(cb[p].date, cb[p].absent), cb[p].volunteer)
    /\ cb' = [cb EXCEPT ![p] = IdleCallback]

RaceNext ==
    \/ JoinHandler
    \/ SkipHandler
    \/ \E p \in Callbacks : VolunteerPress(p)
    \/ \E p \in Callbacks : VolunteerResume(p)

SpecRace == Init /\ [][RaceNext]_vars

\* --------------------------------------------------- resolver specification
ResolveInit ==
    /\ fileExists = TRUE
    /\ start_date \in StartInputs
    /\ members \in MemberLists
    /\ penalties = [i \in {members[k].id : k \in 1..Len(members)} |-> 0]
    /\ overrides \in AtMostOne(OverrideDays, Ids)
    /\ global_holidays \in RangeLists
    /\ away_ranges \in [{members[k].id : k \in 1..Len(members)} -> RangeLists]
    /\ ResolverIdle
    /\ ChatIdle

ResolveNext == ResolveCall \/ ResolveWeek \/ ResolveExit \/ ResolveReturn

SpecResolve == ResolveInit /\ [][ResolveNext]_vars

\* ----------------------------------- repeated calls on one loaded snapshot
ReplayNext == ResolveCall \/ ResolveWeek \/ ResolveExit \/ ResolveKeep

SpecReplay == ResolveInit /\ [][ReplayNext]_vars

\* ================================================== properties: resolver
N == Len(members)
MemberAt(i) == members[(i % N) + 1]
NoAbsences == \A u \in DOMAIN away_ranges : away_ranges[u] = <<>>
OnCadence(d) == d >= start_date /\ (d - start_date) % DAYS_PER_WEEK = 0
WeekOf(d) == (d - start_date) \div DAYS_PER_WEEK
\* a loop iteration has just processed the date `week`
Processed == week # -1 /\ rpc \in {"loop", "done"}
Returned == rpc = "done"
EveryoneAway(d) == \A i \in 1..N : IsMemberAwayOn(members[i].id, d, State)
IsMember(user_id) == GetMemberById(user_id, State) # None

\* C1: with N >= 1 members and no holidays, absences or overrides,
\* get_duty_member on the cadence date start_date + 7k returns the member at
\* index k mod N.
C1_CyclesInListOrder ==
    (/\ Returned
     /\ N >= 1
     /\ global_holidays = <<>> /\ NoAbsences /\ DOMAIN overrides = {}
     /\ OnCadence(day))
    => result = MemberAt(WeekOf(day))

\* the fourth week of a three-member rotation is the first member's again
C1_Witness ==
    /\ Returned /\ N = 3
    /\ global_holidays = <<>> /\ NoAbsences /\ DOMAIN overrides = {}
    /\ OnCadence(day) /\ WeekOf(day) = 3
    /\ result = members[1]

\* C2: a cadence date inside a global holiday interval yields no assignment
\* and leaves the pointer where it was, whatever override or absence is
\* recorded for that date.
C2_HolidayDominates ==
    (Processed /\ IsGlobalHoliday(week, State))
    => /\ assigned_member = None
       /\ pos = prevPos
       /\ GetDutyMember(week, State) = None
       /\ (Returned /\ day = week => result = None)

\* a holiday week that also carries an override, reached with pos moved
C2_Witness ==
    /\ Returned /\ day = week
    /\ IsGlobalHoliday(week, State)
    /\ week \in DOMAIN overrides
    /\ GetMemberById(overrides[week], State) # None
    /\ prevPos > 0 /\ pos = prevPos
    /\ result = None

\* C3: on a cadence date that is no holiday and has no override the first
\* member, scanning circularly from the pointer, who is not absent that day
\* is assigned, and the pointer becomes one past that member.
C3_FirstPresentFromPointer ==
    (Processed /\ ~IsGlobalHoliday(week, State) /\ week \notin DOMAIN overrides)
    => IF EveryoneAway(week)
       THEN assigned_member = None
       ELSE \E skipped \in 0..(N - 1) :
              /\ \A j \in 0..(skipped - 1) :
                    IsMemberAwayOn(MemberAt(prevPos + j).id, week, State)
              /\ ~IsMemberAwayOn(MemberAt(prevPos + skipped).id, week, State)
              /\ assigned_member = MemberAt(prevPos + skipped)
              /\ pos = (prevPos + skipped + 1) % N

\* two absent members are skipped and the scan wraps round the list
C3_Witness ==
    /\ Processed /\ ~IsGlobalHoliday(week, State) /\ week \notin DOMAIN overrides
    /\ N = 3 /\ prevPos = 1
    /\ IsMemberAwayOn(members[2].id, week, State)
    /\ IsMemberAwayOn(members[3].id, week, State)
    /\ assigned_member = members[1]
    /\ pos = 1

\* C4: when every member is absent on a cadence date that is no holiday and
\* has no override, nobody is assigned and the pointer is left unchanged.
C4_AllAbsentFreezes ==
    (/\ Processed /\ ~IsGlobalHoliday(week, State) /\ week \notin DOMAIN overrides
     /\ EveryoneAway(week))
    => /\ assigned_member = None
       /\ pos = prevPos
       /\ GetDutyMember(week, State) = None
       /\ (Returned /\ day = week => result = None)

\* an all-absent week reached after the pointer has moved
C4_Witness ==
    /\ Returned /\ day = week
    /\ ~IsGlobalHoliday(week, State) /\ week \notin DOMAIN overrides
    /\ N >= 2 /\ EveryoneAway(week)
    /\ prevPos > 0 /\ pos = prevPos
    /\ result = None

\* C5: an override on a cadence date that is no holiday advances the pointer
\* by exactly one, whichever member it names and whoever is absent.
C5_OverrideConsumesOneTurn ==
    (Processed /\ ~IsGlobalHoliday(week, State) /\ week \in DOMAIN overrides)
    => pos = (prevPos + 1) % N

\* the override names an absent member two places past the pointer
C5_Witness ==
    /\ Processed /\ ~IsGlobalHoliday(week, State) /\ week \in DOMAIN overrides
    /\ N = 3
    /\ IndexOfId(overrides[week], State) = (prevPos + 2) % N
    /\ IsMemberAwayOn(overrides[week], week, State)
    /\ assigned_member.id = overrides[week]
    /\ pos = (prevPos + 1) % N

\* the intervals of rs with the day d cut out of them
RECURSIVE CutDay(_, _)
CutDay(rs, d) ==
    IF rs = <<>> THEN <<>>
    ELSE LET r == Head(rs) IN
         (IF ~DayInRange(d, r) THEN <<r>>
          ELSE (IF r.from < d THEN <<[from |-> r.from, to |-> d - 1]>> ELSE <<>>)
               \o (IF d < r.to THEN <<[from |-> d + 1, to |-> r.to]>> ELSE <<>>))
         \o CutDay(Tail(rs), d)

\* the snapshot with the day d made a working day and nothing else changed
WithoutHoliday(st, d) == [st EXCEPT !.global_holidays = CutDay(@, d)]

\* the returned call was for the week after a holiday week D
AfterHolidayWeek ==
    /\ Returned
    /\ OnCadence(day) /\ day - DAYS_PER_WEEK >= start_date
    /\ IsGlobalHoliday(day - DAYS_PER_WEEK, State)
    /\ ~IsGlobalHoliday(day, State)

\* C10 as stated: if D is a holiday and D+7 is not, the member assigned at
\* D+7 is the member that would have been assigned at D without the holiday.
C10_AsStated ==
    AfterHolidayWeek
    => result = GetDutyMember(day - DAYS_PER_WEEK,
                              WithoutHoliday(State, day - DAYS_PER_WEEK))

SameWeekData(d, e) ==
    /\ d \notin DOMAIN overrides
    /\ e \notin DOMAIN overrides
    /\ \A i \in 1..N : IsMemberAwayOn(members[i].id, d, State)
                       <=> IsMemberAwayOn(members[i].id, e, State)

\* C10 amended: the same, provided neither D nor D+7 has an override and
\* every member is absent on D exactly when absent on D+7.
C10_HolidayFreeze ==
    (AfterHolidayWeek /\ SameWeekData(day - DAYS_PER_WEEK, day))
    => result = GetDutyMember(day - DAYS_PER_WEEK,
                              WithoutHoliday(State, day - DAYS_PER_WEEK))

\* the first week is a holiday and the first member is absent in both weeks:
\* the second member serves the week after
C10_Witness ==
    /\ AfterHolidayWeek /\ SameWeekData(day - DAYS_PER_WEEK, day)
    /\ N = 3 /\ WeekOf(day) = 1
    /\ IsMemberAwayOn(members[1].id, day, State)
    /\ result = members[2]

\* C14: get_duty_member returns None whenever the day is before start_date
\* or the member list is empty, whatever holidays, absences and overrides
\* the snapshot holds.
C14_NoneBeforeStart ==
    (Returned /\ (members = <<>> \/ day < start_date))
    => /\ result = None
       /\ GetDutyMember(day, State) = None

\* a day before the start date that carries an override naming a member
C14_Witness ==
    /\ Returned /\ day < start_date
    /\ N >= 1
    /\ day \in DOMAIN overrides /\ IsMember(overrides[day])
    /\ result = None

\* the snapshot with every absence range dropped
WithoutAbsences(st) == [st EXCEPT !.away_ranges = [u \in DOMAIN @ |-> <<>>]]

\* C18: on a cadence date that is no holiday and has an override naming a
\* member, that member is assigned even when inside one of their absence
\* ranges: the result is what it would be with no absence data at all.
C18_OverrideIgnoresAbsence ==
    (/\ Processed /\ ~IsGlobalHoliday(week, State)
     /\ week \in DOMAIN overrides /\ IsMember(overrides[week]))
    => /\ assigned_member = GetMemberById(overrides[week], State)
       /\ (Returned /\ day = week) =>
             /\ result = assigned_member
             /\ result = GetDutyMember(day, WithoutAbsences(State))

\* the second week is overridden to a member who is away that day
C18_Witness ==
    /\ Returned /\ day = week /\ WeekOf(day) = 1
    /\ ~IsGlobalHoliday(day, State)
    /\ day \in DOMAIN overrides /\ IsMember(overrides[day])
    /\ IsMemberAwayOn(overrides[day], day, State)
    /\ result.id = overrides[day]

\* C23: for every day on or after start_date that is not start_date + 7k
\* get_duty_member returns None, whatever the members, holidays, absences
\* and overrides: an override stored for such a day puts nobody on duty.
C23_OffCadenceNone ==
    (Returned /\ day >= start_date /\ ~OnCadence(day))
    => /\ result = None
       /\ GetDutyMember(day, State) = None

\* the loop has stepped past a day that carries an override naming a member
C23_Witness ==
    /\ Returned /\ day >= start_date /\ ~OnCadence(day)
    /\ week # -1 /\ assigned_member # None /\ current > day
    /\ day \in DOMAIN overrides /\ IsMember(overrides[day])
    /\ result = None

\* ============================================ properties: repeated calls
\* C13: get_duty_member is deterministic and stateless: a call with the
\* date of the caller's first call returns what that first call returned,
\* whatever calls were made in between, and no step of a call changes the
\* snapshot.
C13_SameResult ==
    (Returned /\ firstCall # NoCall /\ day = firstCall.day)
    => result = firstCall.result

C13_Stateless == []C13_SameResult /\ [][snapshot' = snapshot]_vars

\* the third week is asked for again and goes to the same member, the
\* rotation having moved on from the first member
C13_Witness ==
    /\ Returned /\ firstCall # NoCall /\ day = firstCall.day
    /\ OnCadence(day) /\ WeekOf(day) = 2
    /\ result = firstCall.result
    /\ N >= 2 /\ result # None /\ result # members[1]

\* ================================================ properties: intervals
StoredIntervals ==
    {global_holidays[i] : i \in 1..Len(global_holidays)}
    \cup UNION {{away_ranges[u][i] : i \in 1..Len(away_ranges[u])} : u \in DOMAIN away_ranges}

C15_Ordered == \A r \in StoredIntervals : r.from <= r.to

C15_InvertedRejected ==
    \A f \in RangeArgs, t \in RangeArgs :
        (ParseOk(f) /\ ParseOk(t) /\ ParseDate(t) < ParseDate(f)) =>
          /\ (reply' = "end before start" /\ HolidayRange(f, t)) => UNCHANGED snapshot
          /\ \A u \in Users :
                (reply' = "end before start" /\ Away(u, f, t)) => UNCHANGED snapshot
          /\ (HolidayRange(f, t) \/ \E u \in Users : Away(u, f, t))
               => reply' = "end before start"

\* C15: every interval stored in global_holidays or away_ranges has
\* from <= to, and a holidayrange or away command whose end date is before
\* its start date is rejected and leaves the snapshot as it was.
C15_IntervalsOrdered == []C15_Ordered /\ [][C15_InvertedRejected]_vars

\* an inverted range has been turned down while an interval is stored
C15_Witness ==
    /\ reply = "end before start"
    /\ StoredIntervals # {}
    /\ C15_Ordered

\* ========================================== properties: swap coordinator
SkipReplies == {"bad date", "no duty", "not yours", "offer"}
VolunteerReplies == {"not a member", "already taken", "accepted"}
PenaltyOf(f, user_id) == IF user_id \in DOMAIN f THEN f[user_id] ELSE 0
ConfirmedFor(d) == {i \in 1..Len(confirmations) : confirmations[i].date = d}
\* a swap for the date d has been accepted before
Accepted(d) == ConfirmedFor(d) # {}

\* what a successful acceptance of the offer o by v leaves behind
Recorded(o, v) ==
    /\ reply' = "accepted"
    /\ penalties'[o.absent] = PenaltyOf(penalties, o.absent) + 1
    /\ o.date \in DOMAIN overrides' /\ overrides'[o.date] = v

\* C6 as stated: a successful acceptSwap raises penalties[absentId] by
\* exactly 1 and records the volunteer as the date's override; every later
\* acceptSwap for the date fails as already resolved and leaves the penalty
\* counts unchanged.
C6_AsStated ==
    [][\A o \in offers, v \in Users :
         (reply' \in VolunteerReplies /\ Volunteer(o, v)) =>
           /\ reply' = "accepted" => Recorded(o, v)
           /\ Accepted(o.date) => reply' = "already taken" /\ penalties' = penalties
      ]_vars

\* C6 amended: the same, except that a later acceptSwap by a user who is not
\* in the member list fails as unknown volunteer instead.
C6_SwapLedger ==
    [][\A o \in offers, v \in Users :
         (reply' \in VolunteerReplies /\ Volunteer(o, v)) =>
           /\ reply' = "accepted" => Recorded(o, v)
           /\ Accepted(o.date) =>
                /\ reply' = IF IsMember(v) THEN "already taken" ELSE "not a member"
                /\ penalties' = penalties
      ]_vars

\* one swap accepted and a later acceptance for its date turned down
C6_Witness ==
    /\ reply = "already taken"
    /\ Len(confirmations) = 1
    /\ confirmations[1].date \in DOMAIN overrides
    /\ overrides[confirmations[1].date] = confirmations[1].volunteer
    /\ PenaltyOf(penalties, confirmations[1].absent) = 1

\* C7: of two volunteer callbacks for one offer that run concurrently at
\* most one succeeds: one confirmation per date, its volunteer the recorded
\* override, each penalty count the number of swaps accepted for that
\* member, and the callback that comes second is turned down as already
\* taken without touching the snapshot.
C7_OnePerDate ==
    /\ \A c \in offers : Cardinality(ConfirmedFor(c.date)) <= 1
    /\ \A i \in 1..Len(confirmations) :
          /\ confirmations[i].date \in DOMAIN overrides
          /\ overrides[confirmations[i].date] = confirmations[i].volunteer
    /\ \A u \in DOMAIN penalties :
          penalties[u] = Cardinality({i \in 1..Len(confirmations) :
                                        confirmations[i].absent = u})

C7_SecondTurnedDown ==
    \A p \in Callbacks :
        (/\ reply' \in VolunteerReplies
         /\ Accepted(cb[p].date) /\ IsMember(cb[p].volunteer)
         /\ VolunteerResume(p))
        => reply' = "already taken" /\ UNCHANGED <<snapshot, confirmations>>

C7_AtMostOneSucceeds == []C7_OnePerDate /\ [][C7_SecondTurnedDown]_vars

\* one callback has accepted the swap while another member's callback for
\* the same offer is still suspended at query.answer()
C7_Witness ==
    \E p, q \in Callbacks :
        /\ cb[p].pc = "answer" /\ cb[q].pc = "idle"
        /\ reply = "accepted"
        /\ Len(confirmations) = 1
        /\ confirmations[1].date = cb[p].date
        /\ confirmations[1].absent = cb[p].absent
        /\ confirmations[1].volunteer # cb[p].volunteer
        /\ IsMember(cb[p].volunteer)

\* C8: skip_handler publishes the offer {date, absent = requester} only when
\* get_duty_member returns a member with the requester's id, rejects
\* otherwise, and never changes the snapshot.
C8_ProposeOnlyAssigned ==
    [][\A r \in Users, a \in SkipArgs :
         (reply' \in SkipReplies /\ Skip(r, a)) =>
           LET duty == IF ParseOk(a) THEN GetDutyMember(ParseDate(a), State) ELSE None
           IN  /\ UNCHANGED snapshot
               /\ IF duty # None /\ duty.id = r
                  THEN reply' = "offer" /\ offers' = offers \cup {Offer(ParseDate(a), r)}
                  ELSE reply' \in {"bad date", "no duty", "not yours"} /\ offers' = offers
      ]_vars

\* the second member has offered the second week, which is theirs
C8_Witness ==
    /\ reply = "offer"
    /\ Len(members) = 2
    /\ \E o \in offers :
          /\ o.date = start_date + DAYS_PER_WEEK
          /\ o.absent = members[2].id
          /\ GetDutyMember(o.date, State) = members[2]

\* C9: a volunteer who is not in the member list is turned down as unknown
\* and nothing is written: overrides and penalties stay as they were.
C9_UnknownVolunteer ==
    [][\A o \in offers, v \in Users :
         (reply' \in VolunteerReplies /\ ~IsMember(v) /\ Volunteer(o, v))
         => reply' = "not a member" /\ UNCHANGED <<snapshot, confirmations>>
      ]_vars

\* a non-member has pressed the button of an offer nobody had taken
C9_Witness ==
    /\ reply = "not a member"
    /\ \E o \in offers : o.date \notin DOMAIN overrides
    /\ \E u \in Users : ~IsMember(u)

\* ================================================ properties: membership
\* C11: when an override for a cadence date names an id that is no longer in
\* the member list, get_duty_member for that date still reports an
\* assignment carrying the stored id, not None.
C11_AsStated ==
    \A d \in DOMAIN overrides :
        (/\ members # <<>>
         /\ OnCadence(d) /\ ~IsGlobalHoliday(d, State)
         /\ ~IsMember(overrides[d]))
        => /\ GetDutyMember(d, State) # None
           /\ GetDutyMember(d, State).id = overrides[d]

\* C12: removemember_handler drops the removed member's penalty entry and
\* absence ranges and leaves every override as it was, those naming the
\* removed member included.
C12_AsStated ==
    [][\A a \in Labels :
         (reply' = "removed" /\ RemoveMember(a)) =>
           LET member == GetMemberByLabel(a, State) IN
           /\ member.id \notin DOMAIN penalties'
           /\ member.id \notin DOMAIN away_ranges'
           /\ overrides' = overrides
      ]_vars

\* C16: an entry of overrides, once recorded, is never changed or removed
\* by any later operation: the first acceptance stays, and an acceptance for
\* a date that has one is turned down.
C16_OverridesPermanent ==
    [][/\ \A d \in DOMAIN overrides :
             d \in DOMAIN overrides' /\ overrides'[d] = overrides[d]
       /\ \A o \in offers, v \in Users :
             (reply' \in VolunteerReplies /\ o.date \in DOMAIN overrides
              /\ Volunteer(o, v)) => reply' # "accepted"
      ]_vars

\* the volunteer of an accepted swap has been removed from the list and the
\* override naming them is still there
C16_Witness ==
    /\ reply = "removed"
    /\ \E d \in DOMAIN overrides : ~IsMember(overrides[d])

\* ================================================ properties: schedule views
ViewReplies == {"next", "week", "calendar"}

\* C17: every date next_handler, week_handler and calendar_handler pass to
\* the resolver has the form start_date + 7k with k >= 0.
C17_AsStated ==
    [][(reply' \in ViewReplies /\ (NextHandler \/ WeekHandler \/ CalendarHandler))
       => \A i \in 1..Len(schedule') : OnCadence(schedule'[i].day)
      ]_vars

\* ================================================ properties: penalty ledger
C19_Counts == \A u \in DOMAIN penalties : penalties[u] \in Nat

C19_OnlyAcceptRaises ==
    penalties' # penalties =>
      \A u \in Users :
        /\ PenaltyOf(penalties', u) > PenaltyOf(penalties, u) =>
              /\ reply' = "accepted"
              /\ PenaltyOf(penalties', u) = PenaltyOf(penalties, u) + 1
              /\ \E o \in offers, v \in Users : o.absent = u /\ Volunteer(o, v)
        /\ (IsMember(u) /\ IsMember(u)') =>
              PenaltyOf(penalties', u) >= PenaltyOf(penalties, u)

\* C19: penalty counts are non-negative integers; a count rises only in a
\* successful volunteer_callback, by exactly 1 and for the offer's absent id,
\* and never falls while its member stays in the list.
C19_PenaltyLedger == []C19_Counts /\ [][C19_OnlyAcceptRaises]_vars

\* a penalized member has renamed themselves and kept the count
C19_Witness ==
    /\ reply = "renamed"
    /\ \E u \in DOMAIN penalties : IsMember(u) /\ penalties[u] = 1

\* C20: when a swap is accepted, the offer's absent id is the id of the
\* member get_duty_member assigns to the offer's date in the snapshot that
\* volunteer_callback loaded, also when members, start date, holidays or
\* absences changed after the offer was published.
C20_AsStated ==
    [][\A o \in offers, v \in Users :
         (reply' = "accepted" /\ Volunteer(o, v))
         => GetDutyMember(o.date, State).id = o.absent
      ]_vars

\* ================================================ properties: swap and schedule
\* the cadence dates of the loaded snapshot
ScheduleDays == {start_date + DAYS_PER_WEEK * k : k \in 0..MaxWeeks}

\* pos at the start of the loop iteration for the date d
RECURSIVE PosBefore(_, _, _, _)
PosBefore(p, cur, d, st) ==
    IF cur < d
    THEN PosBefore(WeekStep(p, cur, st).pos, cur + DAYS_PER_WEEK, d, st)
    ELSE p

\* on the working cadence date d the member at the pointer is away: the
\* scan skips them
PointerAway(d, st) ==
    /\ st.members # <<>>
    /\ d >= st.start_date /\ (d - st.start_date) % DAYS_PER_WEEK = 0
    /\ ~IsGlobalHoliday(d, st)
    /\ IsMemberAwayOn(st.members[PosBefore(0, st.start_date, d, st) + 1].id, d, st)

SameElsewhere(D) ==
    \A d \in ScheduleDays \ {D} : GetDutyMember(d, State') = GetDutyMember(d, State)

\* C21 as stated: a successful acceptance for the date D leaves
\* get_duty_member unchanged on every cadence date other than D, also when
\* the requester had been reached at D by skipping absent members.
C21_AsStated ==
    [][\A o \in offers, v \in Users :
         (reply' = "accepted" /\ Volunteer(o, v)) => SameElsewhere(o.date)
      ]_vars

\* C21 amended: the same, provided the member at the pointer on D is not
\* away on D in the snapshot the acceptance loaded.
C21_SwapLocal ==
    [][\A o \in offers, v \in Users :
         (reply' = "accepted" /\ ~PointerAway(o.date, State) /\ Volunteer(o, v))
         => SameElsewhere(o.date)
      ]_vars

\* the snapshot as it was before the override for d was recorded
BeforeSwap(d) == [State EXCEPT !.overrides = Drop(@, d)]

\* a swap accepted for the first week of a two-member rotation in which
\* somebody is away on some day: the second week is served by the same
\* member as before
C21_Witness ==
    /\ reply = "accepted"
    /\ N = 2 /\ StoredRanges = 1 /\ global_holidays = <<>>
    /\ start_date \in DOMAIN overrides
    /\ ~PointerAway(start_date, BeforeSwap(start_date))
    /\ GetDutyMember(start_date + DAYS_PER_WEEK, State) = members[2]
    /\ GetDutyMember(start_date + DAYS_PER_WEEK, BeforeSwap(start_date)) = members[2]

\* C22: in every persisted snapshot every key of penalties is the id of a
\* member of the list, also after an offer is accepted whose absent member
\* was removed once it was published.
C22_AsStated == \A u \in DOMAIN penalties : IsMember(u)

====
